---- MODULE Spec2Model ----
(***************************************************************************)
(* Model of the marchamo vehicle-registry service: the QR plate-token      *)
(* codec (makeQrToken / verifyQrToken) of src/server.ts and the process    *)
(* configuration it reads (specification Spec), and the SQLite store with  *)
(* the boot code and the HTTP handlers that read and write it              *)
(* (specification SpecStore).                                              *)
(*                                                                         *)
(* Text is a sequence of Unicode code points, a Buffer is a sequence of    *)
(* bytes 0..255.  The three server variants of the repository are told     *)
(* apart by the variable `variant`:                                        *)
(*   "server"    = src/server.ts                                           *)
(*   "srcServer" = src/src/server.ts (the older variant)                   *)
(*   "part000"   = src/unnamed/part_000                                    *)
(***************************************************************************)
EXTENDS Integers, Sequences, FiniteSets, TLC

VARIABLES variant, env, QR_SECRET, held, result,
          SEED_ON_START, listening, db, http

vars == <<variant, env, QR_SECRET, held, result,
          SEED_ON_START, listening, db, http>>

\* the part of the state the token codec does not touch
storeVars == <<SEED_ON_START, listening, db, http>>

----------------------------------------------------------------------------
(* Bounds of the model *)

\* longest plate text handed to makeQrToken
MaxPlateLen == 2
\* longest payload segment of a hand-crafted token
MaxCraftLen == 3
\* longest free-form string handed to verifyQrToken
MaxRawLen == 3
\* rows the requests write to the three tables on top of the seed rows
MaxWrites == 2

----------------------------------------------------------------------------
(* Characters *)

\* "." : the separator of token.split(".")
Dot == 46
\* "=" : base64 padding
Pad == 61
\* U+FFFD, what Buffer.toString("utf8") emits for malformed input
Replacement == 65533
\* size in bytes of a SHA-256 digest
DigestLen == 32

Variants == {"server", "srcServer", "part000"}

\* the plate characters of the model: "a", " ", n-tilde
PlateChars == {97, 32, 241}
\* characters of hand-crafted payload segments: "Q", "Y", "!"
CraftChars == {81, 89, 33}
\* what a client may append to a token it holds: ".", ".Q", "="
Suffixes == {<<46>>, <<46, 81>>, <<61>>}
\* characters of free-form strings: "Q", "."
RawChars == {81, 46}
\* a tampered character is the original moved by one of these sextet deltas
TamperDeltas == {1}
\* ... or one of these literal characters: ".", "!"
TamperLiterals == {46, 33}

SeqsUpTo(S, n) == UNION {[1..k -> S] : k \in 0..n}

Plates == SeqsUpTo(PlateChars, MaxPlateLen) \ {<<>>}

----------------------------------------------------------------------------
(* String helpers of the JavaScript runtime *)

\* String.prototype.trim: the white space of ECMAScript
IsWhiteSpace(c) ==
    \/ c \in {9, 10, 11, 12, 13, 32, 160, 5760, 8232, 8233, 8239, 8287, 12288, 65279}
    \/ c \in 8192..8202

RECURSIVE TrimStart(_)
TrimStart(s) ==
    IF s = <<>> THEN <<>>
    ELSE IF IsWhiteSpace(Head(s)) THEN TrimStart(Tail(s)) ELSE s

RECURSIVE TrimEnd(_)
TrimEnd(s) ==
    IF s = <<>> THEN <<>>
    ELSE IF IsWhiteSpace(s[Len(s)]) THEN TrimEnd(SubSeq(s, 1, Len(s) - 1)) ELSE s

Trim(s) == TrimEnd(TrimStart(s))

\* String.prototype.toUpperCase on one code point (ASCII and Latin-1)
UpperOf(c) ==
    IF c \in 97..122 THEN <<c - 32>>
    ELSE IF c = 223 THEN <<83, 83>>
    ELSE IF c = 181 THEN <<924>>
    ELSE IF c = 255 THEN <<376>>
    ELSE IF c \in 224..254 /\ c # 247 THEN <<c - 32>>
    ELSE <<c>>

RECURSIVE ToUpperCase(_)
ToUpperCase(s) ==
    IF s = <<>> THEN <<>> ELSE UpperOf(Head(s)) \o ToUpperCase(Tail(s))

normalizePlaca(input) == ToUpperCase(Trim(input))

----------------------------------------------------------------------------
(* UTF-8: Buffer.from(string) and Buffer.toString("utf8") *)

Utf8Of(c) ==
    IF c < 128 THEN <<c>>
    ELSE IF c < 2048 THEN <<192 + (c \div 64), 128 + (c % 64)>>
    ELSE IF c < 65536 THEN
        <<224 + (c \div 4096), 128 + ((c \div 64) % 64), 128 + (c % 64)>>
    ELSE <<240 + (c \div 262144), 128 + ((c \div 4096) % 64),
           128 + ((c \div 64) % 64), 128 + (c % 64)>>

RECURSIVE Utf8Encode(_)
Utf8Encode(s) ==
    IF s = <<>> THEN <<>> ELSE Utf8Of(Head(s)) \o Utf8Encode(Tail(s))

\* number of continuation bytes a lead byte asks for (0: not a lead byte)
Utf8Needed(b) ==
    IF b \in 194..223 THEN 1
    ELSE IF b \in 224..239 THEN 2
    ELSE IF b \in 240..244 THEN 3
    ELSE 0

\* the range allowed for the first continuation byte after lead byte b
Utf8Lower(b) == IF b = 224 THEN 160 ELSE IF b = 240 THEN 144 ELSE 128
Utf8Upper(b) == IF b = 237 THEN 159 ELSE IF b = 244 THEN 143 ELSE 191

\* number of valid continuation bytes that follow the lead byte at i
RECURSIVE Utf8Run(_, _, _, _)
Utf8Run(bytes, i, k, need) ==
    IF k > need \/ i + k > Len(bytes) THEN k - 1
    ELSE LET b  == bytes[i + k]
             lo == IF k = 1 THEN Utf8Lower(bytes[i]) ELSE 128
             hi == IF k = 1 THEN Utf8Upper(bytes[i]) ELSE 191
         IN IF b >= lo /\ b <= hi THEN Utf8Run(bytes, i, k + 1, need) ELSE k - 1

Utf8Point(bytes, i, need) ==
    IF need = 1 THEN (bytes[i] - 192) * 64 + (bytes[i + 1] - 128)
    ELSE IF need = 2 THEN
        (bytes[i] - 224) * 4096 + (bytes[i + 1] - 128) * 64 + (bytes[i + 2] - 128)
    ELSE (bytes[i] - 240) * 262144 + (bytes[i + 1] - 128) * 4096
         + (bytes[i + 2] - 128) * 64 + (bytes[i + 3] - 128)

RECURSIVE Utf8DecodeFrom(_, _)
Utf8DecodeFrom(bytes, i) ==
    IF i > Len(bytes) THEN <<>>
    ELSE LET b == bytes[i] IN
         IF b < 128 THEN <<b>> \o Utf8DecodeFrom(bytes, i + 1)
         ELSE LET need == Utf8Needed(b) IN
              IF need = 0 THEN <<Replacement>> \o Utf8DecodeFrom(bytes, i + 1)
              ELSE LET got == Utf8Run(bytes, i, 1, need) IN
                   IF got = need
                   THEN <<Utf8Point(bytes, i, need)>> \o Utf8DecodeFrom(bytes, i + need + 1)
                   ELSE <<Replacement>> \o Utf8DecodeFrom(bytes, i + got + 1)

Utf8Decode(bytes) == Utf8DecodeFrom(bytes, 1)

----------------------------------------------------------------------------
(* base64 *)

\* the character of a sextet in the standard alphabet
B64Char(v) ==
    IF v < 26 THEN 65 + v
    ELSE IF v < 52 THEN 97 + (v - 26)
    ELSE IF v < 62 THEN 48 + (v - 52)
    ELSE IF v = 62 THEN 43
    ELSE 47

\* the sextet of a character, -1 when it is not a base64 character; the
\* decoder of Buffer.from(_, "base64") takes both "+" "/" and "-" "_"
Unbase64(c) ==
    IF c \in 65..90 THEN c - 65
    ELSE IF c \in 97..122 THEN c - 97 + 26
    ELSE IF c \in 48..57 THEN c - 48 + 52
    ELSE IF c = 43 \/ c = 45 THEN 62
    ELSE IF c = 47 \/ c = 95 THEN 63
    ELSE 0 - 1

\* Buffer.toString("base64")
RECURSIVE Base64Encode(_)
Base64Encode(b) ==
    IF Len(b) = 0 THEN <<>>
    ELSE IF Len(b) = 1 THEN
        <<B64Char(b[1] \div 4), B64Char((b[1] % 4) * 16), Pad, Pad>>
    ELSE IF Len(b) = 2 THEN
        <<B64Char(b[1] \div 4), B64Char((b[1] % 4) * 16 + (b[2] \div 16)),
          B64Char((b[2] % 16) * 4), Pad>>
    ELSE <<B64Char(b[1] \div 4), B64Char((b[1] % 4) * 16 + (b[2] \div 16)),
           B64Char((b[2] % 16) * 4 + (b[3] \div 64)), B64Char(b[3] % 64)>>
         \o Base64Encode(SubSeq(b, 4, Len(b)))

\* the sextets the decoder reads: it skips every character that is not a
\* base64 character and stops at the first "="
RECURSIVE Sextets(_)
Sextets(s) ==
    IF s = <<>> THEN <<>>
    ELSE IF Head(s) = Pad THEN <<>>
    ELSE IF Unbase64(Head(s)) < 0 THEN Sextets(Tail(s))
    ELSE <<Unbase64(Head(s))>> \o Sextets(Tail(s))

RECURSIVE SextetsToBytes(_)
SextetsToBytes(x) ==
    IF Len(x) < 2 THEN <<>>
    ELSE IF Len(x) = 2 THEN <<x[1] * 4 + (x[2] \div 16)>>
    ELSE IF Len(x) = 3 THEN
        <<x[1] * 4 + (x[2] \div 16), (x[2] % 16) * 16 + (x[3] \div 4)>>
    ELSE <<x[1] * 4 + (x[2] \div 16), (x[2] % 16) * 16 + (x[3] \div 4),
           (x[3] % 4) * 64 + x[4]>>
         \o SextetsToBytes(SubSeq(x, 5, Len(x)))

\* Buffer.from(_, "base64"): never throws
Base64Decode(s) == SextetsToBytes(Sextets(s))

\* String.prototype.replace(/x/g, y) for single characters
ReplaceAll(s, from, to) == [i \in 1..Len(s) |-> IF s[i] = from THEN to ELSE s[i]]

\* String.prototype.replace(/=+$/g, "")
RECURSIVE StripPad(_)
StripPad(s) ==
    IF s = <<>> THEN <<>>
    ELSE IF s[Len(s)] = Pad THEN StripPad(SubSeq(s, 1, Len(s) - 1)) ELSE s

Repeat(c, n) == [i \in 1..n |-> c]

\* mutant: the standard base64 text is returned as it is
base64url_standard(b) == Base64Encode(b)

base64url(b) == StripPad(ReplaceAll(ReplaceAll(Base64Encode(b), 43, 45), 47, 95))

\* mutant: the decoded bytes are read as latin1 instead of utf8
fromBase64UrlToString_latin1(b64url) ==
    LET b64    == ReplaceAll(ReplaceAll(b64url, 45, 43), 95, 47)
        padLen == (4 - (Len(b64) % 4)) % 4
        padded == b64 \o Repeat(Pad, padLen)
    IN Base64Decode(padded)

fromBase64UrlToString(b64url) ==
    LET b64    == ReplaceAll(ReplaceAll(b64url, 45, 43), 95, 47)
        padLen == (4 - (Len(b64) % 4)) % 4
        padded == b64 \o Repeat(Pad, padLen)
    IN Utf8Decode(Base64Decode(padded))

----------------------------------------------------------------------------
(* The signing secret and HMAC-SHA256 *)

DefaultSecret == "dev_secret_change_me"

\* process.env.QR_SECRET: {} when the variable is unset, {v} when it is v
EnvValues == {{}, {""}, {"k1"}}

\* process.env.QR_SECRET || "dev_secret_change_me"
SecretOf(e) ==
    IF e = {} \/ e = {""} THEN DefaultSecret ELSE CHOOSE v \in e : TRUE

Secrets == <<DefaultSecret, "k1">>

SecretId(k) == CHOOSE i \in 1..Len(Secrets) : Secrets[i] = k

RECURSIVE HmacMix(_, _, _)
HmacMix(x, i, prev) ==
    IF i > Len(x) THEN <<>>
    ELSE LET d == (x[i] * 167 + prev * 31 + i) % 256
         IN <<d>> \o HmacMix(x, i + 1, d)

\* crypto.createHmac("sha256", key).update(msg).digest(): a keyed function
\* with a DigestLen-byte result.  SHA-256 is idealised as collision free: the
\* digest is an invertible mixing of (key, msg), injective for every message
\* of at most DigestLen - 2 bytes, which covers the messages of the model.
Hmac(key, msg) ==
    LET block == <<SecretId(key)>> \o msg \o <<128>> \o Repeat(0, DigestLen)
    IN HmacMix(SubSeq(block, 1, DigestLen), 1, 0)

\* mutant: the key is the built-in default, not the secret of the process
sign_fixedKey(payload) == base64url(Hmac(DefaultSecret, Utf8Encode(payload)))

\* mutant: the signature does not depend on what is signed
sign_constant(payload) == base64url(Hmac(QR_SECRET, <<>>))

sign(payload) == base64url(Hmac(QR_SECRET, Utf8Encode(payload)))

----------------------------------------------------------------------------
(* The token codec *)

\* mutant: every token after the first one carries a marker in its payload
makeQrToken_counter(placa) ==
    LET base    == IF variant = "srcServer" THEN placa ELSE normalizePlaca(placa)
        payload == IF held.token = <<>> THEN base ELSE base \o <<35>>
        sig     == sign(payload)
    IN base64url(Utf8Encode(payload)) \o <<Dot>> \o sig

makeQrToken(placa) ==
    LET payload == IF variant = "srcServer" THEN placa ELSE normalizePlaca(placa)
        sig     == sign(payload)
    IN base64url(Utf8Encode(payload)) \o <<Dot>> \o sig

\* String.prototype.split(".")
RECURSIVE SplitFrom(_, _, _)
SplitFrom(s, i, cur) ==
    IF i > Len(s) THEN <<cur>>
    ELSE IF s[i] = Dot THEN <<cur>> \o SplitFrom(s, i + 1, <<>>)
    ELSE SplitFrom(s, i + 1, Append(cur, s[i]))

Split(s) == SplitFrom(s, 1, <<>>)

\* crypto.timingSafeEqual: throws a RangeError when the byte lengths differ
timingSafeEqual(a, b) ==
    IF Len(a) # Len(b) THEN "throw" ELSE IF a = b THEN "true" ELSE "false"

Null == [kind |-> "null", placa |-> <<>>]
Thrown == [kind |-> "throw", placa |-> <<>>]
Ok(p) == [kind |-> "ok", placa |-> p]

\* mutant: the two signatures are compared after base64 decoding
SigMatches_decoded(sig, expected) ==
    LET r == timingSafeEqual(Base64Decode(sig), Base64Decode(expected))
    IN IF r = "throw" THEN "false" ELSE r

\* mutant: timingSafeEqual is called outside any try / catch
SigMatches_nocatch(sig, expected) ==
    timingSafeEqual(Utf8Encode(sig), Utf8Encode(expected))

\* the comparison step of verifyQrToken with its try / catch
SigMatches(sig, expected) ==
    LET r == timingSafeEqual(Utf8Encode(sig), Utf8Encode(expected))
    IN IF r = "throw" THEN "false" ELSE r

\* mutant: the signature is recomputed over the encoded payload segment
verifyQrToken_signsEncoded(token) ==
    LET parts == Split(token) IN
    IF Len(parts) # 2 THEN Null
    ELSE LET payloadB64 == parts[1]
             sig        == parts[2]
             placa      == fromBase64UrlToString(payloadB64)
             expected   == sign(payloadB64)
             eq         == SigMatches(sig, expected)
         IN IF eq = "throw" THEN Thrown
            ELSE IF eq = "false" THEN Null
            ELSE Ok(IF variant = "srcServer" THEN placa ELSE normalizePlaca(placa))

\* mutant: only fewer than two segments are refused, further ones are ignored
verifyQrToken_atLeastTwo(token) ==
    LET parts == Split(token) IN
    IF Len(parts) < 2 THEN Null
    ELSE LET payloadB64 == parts[1]
             sig        == parts[2]
             placa      == fromBase64UrlToString(payloadB64)
             expected   == sign(placa)
             eq         == SigMatches(sig, expected)
         IN IF eq = "throw" THEN Thrown
            ELSE IF eq = "false" THEN Null
            ELSE Ok(IF variant = "srcServer" THEN placa ELSE normalizePlaca(placa))

\* mutant: the decoded plate is returned as it is in every variant
verifyQrToken_raw(token) ==
    LET parts == Split(token) IN
    IF Len(parts) # 2 THEN Null
    ELSE LET payloadB64 == parts[1]
             sig        == parts[2]
             placa      == fromBase64UrlToString(payloadB64)
             expected   == sign(placa)
             eq         == SigMatches(sig, expected)
         IN IF eq = "throw" THEN Thrown
            ELSE IF eq = "false" THEN Null
            ELSE Ok(placa)

\* mutant: a token is honoured only while its plate is in the store
verifyQrToken_registered(token) ==
    LET parts == Split(token) IN
    IF Len(parts) # 2 THEN Null
    ELSE LET payloadB64 == parts[1]
             sig        == parts[2]
             placa      == fromBase64UrlToString(payloadB64)
             expected   == sign(placa)
             eq         == SigMatches(sig, expected)
         IN IF eq = "throw" THEN Thrown
            ELSE IF eq = "false" THEN Null
            ELSE IF ~\E v \in db.vehiculos : v.placa = normalizePlaca(placa)
            THEN Null
            ELSE Ok(IF variant = "srcServer" THEN placa ELSE normalizePlaca(placa))

verifyQrToken(token) ==
    LET parts == Split(token) IN
    IF Len(parts) # 2 THEN Null
    ELSE LET payloadB64 == parts[1]
             sig        == parts[2]
             placa      == fromBase64UrlToString(payloadB64)
             expected   == sign(placa)
             eq         == SigMatches(sig, expected)
         IN IF eq = "throw" THEN Thrown
            ELSE IF eq = "false" THEN Null
            ELSE Ok(IF variant = "srcServer" THEN placa ELSE normalizePlaca(placa))

----------------------------------------------------------------------------
(* The store: the SQLite database of src/src/db.ts and src/src/initDb.ts.  *)
(* A table is the set of its rows; a nullable column holds {} for NULL and *)
(* {v} for the value v.  The columns color, caracteristicas, observaciones *)
(* and the created_at of the two history tables are carried by no          *)
(* condition of the code and are left out.  A time is a natural number.    *)

\* the database file before initDb ran on it
FreshDb ==
    [schema                 |-> FALSE,
     vehiculos              |-> {},
     marchamos              |-> {},
     revisiones_vehiculares |-> {},
     sqlite_sequence        |-> [vehiculos |-> 0, marchamos |-> 0,
                                 revisiones_vehiculares |-> 0]]

\* CREATE TABLE IF NOT EXISTS ...: rows that are there stay
initDb(d) == [d EXCEPT !.schema = TRUE]

\* the outcome of a statement or transaction: the store after it, or a throw
\* that leaves the store as it was
Done(d, id) == [ok |-> TRUE, db |-> d, lastInsertRowid |-> id]
Failed(d) == [ok |-> FALSE, db |-> d, lastInsertRowid |-> 0]

\* INSERT INTO vehiculos: AUTOINCREMENT never gives an id a second time;
\* placa is UNIQUE (compared byte for byte)
insertVehiculo(d, v) ==
    IF \E w \in d.vehiculos : w.placa = v.placa
    THEN Failed(d)
    ELSE LET id == d.sqlite_sequence.vehiculos + 1
         IN Done([d EXCEPT !.vehiculos = @ \cup
                               {[id |-> id, placa |-> v.placa, marca |-> v.marca,
                                 modelo |-> v.modelo, anio |-> v.anio,
                                 tipo |-> v.tipo,
                                 numero_chasis |-> v.numero_chasis,
                                 created_at |-> v.created_at]},
                           !.sqlite_sequence.vehiculos = id], id)

\* INSERT INTO marchamos: the foreign key needs the vehicle to exist
insertMarchamo(d, vehiculo_id, anio_validez, monto, estado) ==
    IF ~\E w \in d.vehiculos : w.id = vehiculo_id
    THEN Failed(d)
    ELSE LET id == d.sqlite_sequence.marchamos + 1
         IN Done([d EXCEPT !.marchamos = @ \cup
                               {[id |-> id, vehiculo_id |-> vehiculo_id,
                                 anio_validez |-> anio_validez,
                                 monto |-> monto, estado |-> estado]},
                           !.sqlite_sequence.marchamos = id], id)

\* INSERT INTO revisiones_vehiculares
insertRevision(d, vehiculo_id, anio_validez, resultado) ==
    IF ~\E w \in d.vehiculos : w.id = vehiculo_id
    THEN Failed(d)
    ELSE LET id == d.sqlite_sequence.revisiones_vehiculares + 1
         IN Done([d EXCEPT !.revisiones_vehiculares = @ \cup
                               {[id |-> id, vehiculo_id |-> vehiculo_id,
                                 anio_validez |-> anio_validez,
                                 resultado |-> resultado]},
                           !.sqlite_sequence.revisiones_vehiculares = id], id)

\* DELETE FROM marchamos WHERE vehiculo_id = ?
deleteMarchamos(d, vehiculo_id) ==
    [d EXCEPT !.marchamos = {m \in @ : m.vehiculo_id # vehiculo_id}]

\* DELETE FROM revisiones_vehiculares WHERE vehiculo_id = ?
deleteRevisiones(d, vehiculo_id) ==
    [d EXCEPT !.revisiones_vehiculares = {r \in @ : r.vehiculo_id # vehiculo_id}]

\* DELETE FROM vehiculos WHERE id = ?, with ON DELETE CASCADE of both
\* history tables (PRAGMA foreign_keys = ON)
deleteVehiculo(d, id) ==
    [d EXCEPT !.vehiculos = {v \in @ : v.id # id},
              !.marchamos = {m \in @ : m.vehiculo_id # id},
              !.revisiones_vehiculares = {r \in @ : r.vehiculo_id # id}]

\* SELECT ... FROM vehiculos WHERE placa = ?  ({} when there is no such row)
vehiculoByPlaca(d, placa) == {v \in d.vehiculos : v.placa = placa}

\* the list `vehiculos` of seedDb
SeedVehiculos ==
    <<
        [placa |-> <<65, 66, 67, 49, 50, 51>>, \* ABC123 Toyota Corolla
         marca |-> <<84, 111, 121, 111, 116, 97>>, modelo |-> <<67, 111, 114, 111, 108, 108, 97>>,
         anio |-> 2018, numero_chasis |-> <<74, 84, 68, 66, 82, 51, 50, 69, 49, 50, 51, 52, 53, 54, 55, 56, 57>>,
         tipo |-> {<<67, 97, 114, 114, 111>>}],
        [placa |-> <<68, 69, 70, 52, 53, 54>>, \* DEF456 Hyundai Elantra
         marca |-> <<72, 121, 117, 110, 100, 97, 105>>, modelo |-> <<69, 108, 97, 110, 116, 114, 97>>,
         anio |-> 2019, numero_chasis |-> <<75, 77, 72, 68, 56, 52, 76, 70, 57, 75, 85, 49, 50, 51, 52, 53, 54>>,
         tipo |-> {<<67, 97, 114, 114, 111>>}],
        [placa |-> <<71, 72, 73, 55, 56, 57>>, \* GHI789 Nissan Sentra
         marca |-> <<78, 105, 115, 115, 97, 110>>, modelo |-> <<83, 101, 110, 116, 114, 97>>,
         anio |-> 2020, numero_chasis |-> <<51, 78, 49, 65, 66, 55, 65, 80, 48, 76, 89, 50, 51, 52, 53, 54, 55>>,
         tipo |-> {<<67, 97, 114, 114, 111>>}],
        [placa |-> <<74, 75, 76, 51, 50, 49>>, \* JKL321 Kia Sportage
         marca |-> <<75, 105, 97>>, modelo |-> <<83, 112, 111, 114, 116, 97, 103, 101>>,
         anio |-> 2021, numero_chasis |-> <<75, 78, 68, 80, 77, 67, 65, 67, 53, 77, 55, 56, 57, 48, 49, 50, 51>>,
         tipo |-> {<<67, 97, 114, 114, 111>>}],
        [placa |-> <<77, 78, 79, 54, 53, 52>>, \* MNO654 Mazda CX-5
         marca |-> <<77, 97, 122, 100, 97>>, modelo |-> <<67, 88, 45, 53>>,
         anio |-> 2022, numero_chasis |-> <<74, 77, 51, 75, 70, 66, 68, 77, 48, 78, 48, 49, 50, 51, 52, 53, 54>>,
         tipo |-> {<<67, 97, 114, 114, 111>>}],
        [placa |-> <<80, 81, 82, 57, 56, 55>>, \* PQR987 Chevrolet Onix
         marca |-> <<67, 104, 101, 118, 114, 111, 108, 101, 116>>, modelo |-> <<79, 110, 105, 120>>,
         anio |-> 2017, numero_chasis |-> <<57, 66, 71, 75, 83, 52, 56, 84, 48, 72, 71, 49, 50, 51, 52, 53, 54>>,
         tipo |-> {<<67, 97, 114, 114, 111>>}],
        [placa |-> <<83, 84, 85, 49, 52, 55>>, \* STU147 Ford Escape
         marca |-> <<70, 111, 114, 100>>, modelo |-> <<69, 115, 99, 97, 112, 101>>,
         anio |-> 2019, numero_chasis |-> <<49, 70, 77, 67, 85, 57, 72, 68, 50, 75, 85, 65, 49, 50, 51, 52, 53>>,
         tipo |-> {<<67, 97, 114, 114, 111>>}],
        [placa |-> <<86, 87, 88, 50, 53, 56>>, \* VWX258 Volkswagen Jetta
         marca |-> <<86, 111, 108, 107, 115, 119, 97, 103, 101, 110>>, modelo |-> <<74, 101, 116, 116, 97>>,
         anio |-> 2018, numero_chasis |-> <<51, 86, 87, 50, 66, 55, 65, 74, 53, 74, 77, 49, 50, 51, 52, 53, 54>>,
         tipo |-> {<<67, 97, 114, 114, 111>>}],
        [placa |-> <<89, 90, 65, 51, 54, 57>>, \* YZA369 Honda Civic
         marca |-> <<72, 111, 110, 100, 97>>, modelo |-> <<67, 105, 118, 105, 99>>,
         anio |-> 2020, numero_chasis |-> <<50, 72, 71, 70, 67, 50, 70, 54, 57, 76, 72, 49, 50, 51, 52, 53, 54>>,
         tipo |-> {<<67, 97, 114, 114, 111>>}],
        [placa |-> <<66, 67, 68, 55, 52, 49>>, \* BCD741 Subaru Forester
         marca |-> <<83, 117, 98, 97, 114, 117>>, modelo |-> <<70, 111, 114, 101, 115, 116, 101, 114>>,
         anio |-> 2021, numero_chasis |-> <<74, 70, 50, 83, 75, 65, 74, 67, 50, 77, 72, 49, 50, 51, 52, 53, 54>>,
         tipo |-> {<<67, 97, 114, 114, 111>>}],
        [placa |-> <<77, 79, 84, 49, 48, 49>>, \* MOT101 Honda XR150L
         marca |-> <<72, 111, 110, 100, 97>>, modelo |-> <<88, 82, 49, 53, 48, 76>>,
         anio |-> 2017, numero_chasis |-> <<77, 76, 72, 88, 82, 49, 53, 49, 55, 72, 53, 49, 50, 51, 52, 53, 54>>,
         tipo |-> {<<77, 111, 116, 111>>}],
        [placa |-> <<77, 79, 84, 50, 48, 50>>, \* MOT202 Yamaha FZ25
         marca |-> <<89, 97, 109, 97, 104, 97>>, modelo |-> <<70, 90, 50, 53>>,
         anio |-> 2019, numero_chasis |-> <<77, 69, 49, 82, 71, 52, 55, 49, 49, 75, 50, 49, 50, 51, 52, 53, 54>>,
         tipo |-> {<<77, 111, 116, 111>>}],
        [placa |-> <<77, 79, 84, 51, 48, 51>>, \* MOT303 Suzuki GSX-R150
         marca |-> <<83, 117, 122, 117, 107, 105>>, modelo |-> <<71, 83, 88, 45, 82, 49, 53, 48>>,
         anio |-> 2020, numero_chasis |-> <<74, 83, 49, 66, 75, 49, 49, 49, 48, 76, 50, 49, 50, 51, 52, 53, 54>>,
         tipo |-> {<<77, 111, 116, 111>>}],
        [placa |-> <<77, 79, 84, 52, 48, 52>>, \* MOT404 Kawasaki Ninja 400
         marca |-> <<75, 97, 119, 97, 115, 97, 107, 105>>, modelo |-> <<78, 105, 110, 106, 97, 32, 52, 48, 48>>,
         anio |-> 2021, numero_chasis |-> <<74, 75, 65, 69, 88, 56, 65, 49, 56, 77, 68, 65, 49, 50, 51, 52, 53>>,
         tipo |-> {<<77, 111, 116, 111>>}],
        [placa |-> <<77, 79, 84, 53, 48, 53>>, \* MOT505 Honda CBR250R
         marca |-> <<72, 111, 110, 100, 97>>, modelo |-> <<67, 66, 82, 50, 53, 48, 82>>,
         anio |-> 2016, numero_chasis |-> <<77, 76, 72, 77, 67, 52, 49, 50, 51, 71, 53, 49, 50, 51, 52, 53, 54>>,
         tipo |-> {<<77, 111, 116, 111>>}]
    >>

\* the year, amounts and texts seedDb writes
SeedAnio == 2026
SeedMontoMoto == 45000
SeedMontoCarro == 95000
\* "Moto", "Vigente", "Aprobado"
Moto == <<77, 111, 116, 111>>
Vigente == <<86, 105, 103, 101, 110, 116, 101>>
Aprobado == <<65, 112, 114, 111, 98, 97, 100, 111>>

\* datetime('now'), the default of created_at, when the seed is written
SeedTime == 0

\* the row seedDb hands to insertVehiculo; created_at takes its default
SeedRow(v) ==
    [placa |-> v.placa, marca |-> v.marca, modelo |-> v.modelo, anio |-> v.anio,
     tipo |-> v.tipo, numero_chasis |-> v.numero_chasis, created_at |-> SeedTime]

RECURSIVE SeedFrom(_, _)
\* the body of the transaction of seedDb from the i-th vehicle on
SeedFrom(d, i) ==
    IF i > Len(SeedVehiculos) THEN Done(d, 0)
    ELSE LET v  == SeedVehiculos[i]
             r1 == insertVehiculo(d, SeedRow(v))
         IN IF ~r1.ok THEN r1
            ELSE LET r2 == insertMarchamo(r1.db, r1.lastInsertRowid, SeedAnio,
                               IF v.tipo = {Moto} THEN {SeedMontoMoto}
                               ELSE {SeedMontoCarro}, {Vigente})
                 IN IF ~r2.ok THEN r2
                    ELSE LET r3 == insertRevision(r2.db, r1.lastInsertRowid,
                                                  SeedAnio, {Aprobado})
                         IN IF ~r3.ok THEN r3 ELSE SeedFrom(r3.db, i + 1)

RECURSIVE SeedMissingFrom(_, _)
\* mutant: every seed vehicle whose plate is missing is written again
SeedMissingFrom(d, i) ==
    IF i > Len(SeedVehiculos) THEN d
    ELSE LET r1 == insertVehiculo(d, SeedRow(SeedVehiculos[i]))
         IN IF ~r1.ok THEN SeedMissingFrom(d, i + 1)
            ELSE SeedMissingFrom(
                     insertRevision(
                         insertMarchamo(r1.db, r1.lastInsertRowid, SeedAnio,
                                        {SeedMontoCarro}, {Vigente}).db,
                         r1.lastInsertRowid, SeedAnio, {Aprobado}).db,
                     i + 1)

seedDb_insertMissing(d) == SeedMissingFrom(d, 1)

\* seedDb: nothing when the table holds a vehicle, else the whole list in
\* one transaction
seedDb(d) ==
    IF Cardinality(d.vehiculos) > 0 THEN d
    ELSE LET tx == SeedFrom(d, 1) IN IF tx.ok THEN tx.db ELSE d

----------------------------------------------------------------------------
(* Requests and answers of the HTTP service.  An absent JSON field or      *)
(* header is {}, a present one {value}.                                     *)

The(f) == CHOOSE x \in f : TRUE

\* a request body with no field
EmptyBody ==
    [placa |-> {}, marca |-> {}, modelo |-> {}, anio |-> {},
     numero_chasis |-> {}, tipo |-> {}, marchamo |-> {}, revision |-> {},
     rtv |-> {},
     anio_validez |-> {}, monto |-> {}, estado |-> {}, resultado |-> {}]

NoDelta == [vehiculos |-> {}, marchamos |-> {}, revisiones_vehiculares |-> {}]

\* http is the request being answered and its answer; added and removed are
\* the rows the handler wrote to and took from the store
NoHttp ==
    [op |-> "none", param |-> <<>>, body |-> EmptyBody, status |-> 0,
     message |-> "", token |-> <<>>, placa |-> <<>>, lookups |-> 0,
     total |-> 0, items |-> <<>>, ultimo_marchamo |-> {}, ultima_revision |-> {},
     added |-> NoDelta, removed |-> NoDelta]

----------------------------------------------------------------------------
(* The state machine: a process, and a client that keeps the last token     *)
(* it was issued and hands tokens back for verification                     *)

\* held.prev is the token an earlier call returned for the same plate under
\* the same secret, <<>> when there was no such call
NoToken == [token |-> <<>>, placa |-> <<>>, secret |-> "", prev |-> <<>>]
NoResult == [op |-> "boot", arg |-> <<>>, kind |-> "none", val |-> <<>>]

VerifyResult(token) ==
    LET r == verifyQrToken(token)
    IN [op |-> "verify", arg |-> token, kind |-> r.kind, val |-> r.placa]

\* no call is in progress and no answer is waiting to be read
Idle == result = NoResult

Init ==
    /\ variant \in Variants
    /\ env \in EnvValues
    /\ QR_SECRET = SecretOf(env)
    /\ held = NoToken
    /\ result = NoResult
    /\ SEED_ON_START = {}
    /\ listening = FALSE
    /\ db = FreshDb
    /\ http = NoHttp

\* the process is stopped and started with another environment; tokens
\* already handed out stay with the client
Restart(e) ==
    /\ Idle
    /\ env' = e
    /\ QR_SECRET' = SecretOf(e)
    /\ result' = NoResult
    /\ UNCHANGED <<variant, held>>
    /\ UNCHANGED storeVars

Issue(p) ==
    /\ Idle
    /\ result' = [op |-> "issue", arg |-> p, kind |-> "ok", val |-> makeQrToken(p)]
    /\ held' = [token  |-> makeQrToken(p), placa |-> p, secret |-> QR_SECRET,
                prev   |-> IF held.placa = p /\ held.secret = QR_SECRET
                           THEN held.token ELSE <<>>]
    /\ UNCHANGED <<variant, env, QR_SECRET>>
    /\ UNCHANGED storeVars

VerifyHeld ==
    /\ Idle
    /\ held # NoToken
    /\ result' = VerifyResult(held.token)
    /\ UNCHANGED <<variant, env, QR_SECRET, held>>
    /\ UNCHANGED storeVars

\* the base64url character of a sextet
UrlChar(v) == IF v = 62 THEN 45 ELSE IF v = 63 THEN 95 ELSE B64Char(v)

\* the characters a tamperer writes over character c
TamperChoices(c) ==
    (TamperLiterals \cup
     (IF Unbase64(c) < 0 THEN {}
      ELSE {UrlChar((Unbase64(c) + d) % 64) : d \in TamperDeltas})) \ {c}

VerifyTampered(i, c) ==
    /\ Idle
    /\ held # NoToken
    /\ result' = VerifyResult([held.token EXCEPT ![i] = c])
    /\ UNCHANGED <<variant, env, QR_SECRET, held>>
    /\ UNCHANGED storeVars

\* signature segments a token crafted around payload segment p can carry
CraftSigs(p) ==
    LET good == sign(fromBase64UrlToString(p))
        n    == Len(good)
    IN { good,
         [good EXCEPT ![n] = UrlChar((Unbase64(good[n]) + 1) % 64)],
         good \o <<Pad>>,
         SubSeq(good, 1, n - 1),
         <<>> }

\* verifyQrToken reads nothing of what the client holds: hand-made tokens
\* are tried by a caller that was issued none
VerifyCrafted(p, s) ==
    /\ Idle
    /\ held = NoToken
    /\ result' = VerifyResult(p \o <<Dot>> \o s)
    /\ UNCHANGED <<variant, env, QR_SECRET, held>>
    /\ UNCHANGED storeVars

VerifySuffixed(x) ==
    /\ Idle
    /\ held # NoToken
    /\ result' = VerifyResult(held.token \o x)
    /\ UNCHANGED <<variant, env, QR_SECRET, held>>
    /\ UNCHANGED storeVars

VerifyRaw(t) ==
    /\ Idle
    /\ held = NoToken
    /\ result' = VerifyResult(t)
    /\ UNCHANGED <<variant, env, QR_SECRET, held>>
    /\ UNCHANGED storeVars

\* the caller reads the answer of the finished call
Return ==
    /\ ~Idle
    /\ result' = NoResult
    /\ UNCHANGED <<variant, env, QR_SECRET, held>>
    /\ UNCHANGED storeVars

Next ==
    \/ Return
    \/ \E e \in EnvValues : Restart(e)
    \/ \E p \in Plates : Issue(p)
    \/ VerifyHeld
    \/ \E i \in 1..Len(held.token) :
          \E c \in TamperChoices(held.token[i]) : VerifyTampered(i, c)
    \/ \E p \in IF Idle /\ held = NoToken
                 THEN SeqsUpTo(CraftChars, MaxCraftLen) ELSE {} :
          \E s \in CraftSigs(p) : VerifyCrafted(p, s)
    \/ \E x \in Suffixes : VerifySuffixed(x)
    \/ \E t \in SeqsUpTo(RawChars, MaxRawLen) : VerifyRaw(t)

Spec == Init /\ [][Next]_vars

----------------------------------------------------------------------------
(* The HTTP service of src/server.ts and src/unnamed/part_000: boot, the    *)
(* dashboard CRUD handlers and the token endpoints                          *)

\* String(x || "") and String(x ?? "") of a field that is absent or a text
Str(f) == IF f = {} THEN <<>> ELSE The(f)

\* toNullableString
toNullableString(f) ==
    LET t == Trim(Str(f)) IN IF t = <<>> THEN {} ELSE {t}

\* Number(x) is neither NaN (x absent) nor 0
NonZero(f) == f # {} /\ The(f) # 0

\* String.prototype.toLowerCase on ASCII text
LowerOf(c) == IF c \in 65..90 THEN c + 32 ELSE c
ToLowerCase(t) == [i \in 1..Len(t) |-> LowerOf(t[i])]

\* "true"
TrueText == <<116, 114, 117, 101>>

\* the values of process.env.SEED_ON_START the process is started with
SeedEnvValues == {{}, {<<84, 114, 117, 101>>}}

\* the boot code at the top of the server file
boot(d, seedOnStart) ==
    IF variant = "srcServer" THEN d
    ELSE LET d1 == seedDb(initDb(d))
             d2 == initDb(d1)
         IN IF ToLowerCase(Str(seedOnStart)) = TrueText THEN seedDb(d2) ELSE d2

\* an answer that issues no token and resolves no plate
Answer(d, status, message, lookups) ==
    [db |-> d, status |-> status, message |-> message, token |-> <<>>,
     placa |-> <<>>, lookups |-> lookups,
     total |-> 0, items |-> <<>>, ultimo_marchamo |-> {}, ultima_revision |-> {}]

\* the tipo column of POST and PUT /vehiculos
TipoOf(f) ==
    IF variant = "part000"
    THEN IF Str(f) = <<>> THEN {} ELSE {Trim(The(f))}
    ELSE toNullableString(f)

\* x ? String(x) : null
TextOrNull(f) == IF Str(f) = <<>> THEN {} ELSE f

\* what can go wrong inside the transaction of POST /vehiculos: the run()
\* of one of its three statements throws (disk full, I/O error), or nothing
Faults == {"none", "insertVeh", "insertMarch", "insertRev"}

\* mutant: statements run one by one, what was written before a throw stays
postVehiculosTx_noRollback(d, placa, marca, modelo, anio, tipo, numero_chasis, body, createdAt, fault) ==
    LET r1 == IF fault = "insertVeh" THEN Failed(d)
              ELSE insertVehiculo(d, [placa |-> placa, marca |-> marca,
                                      modelo |-> modelo, anio |-> anio,
                                      tipo |-> tipo,
                                      numero_chasis |-> numero_chasis,
                                      created_at |-> createdAt])
    IN IF ~r1.ok THEN Failed(d)
       ELSE LET m  == body.marchamo
                r2 == IF m # {} /\ NonZero(The(m).anio_validez)
                      THEN IF fault = "insertMarch" THEN Failed(r1.db)
                           ELSE insertMarchamo(r1.db, r1.lastInsertRowid,
                                               The(The(m).anio_validez),
                                               The(m).monto,
                                               TextOrNull(The(m).estado))
                      ELSE r1
            IN IF ~r2.ok THEN Failed(r1.db)
               ELSE LET r  == body.revision
                        r3 == IF r # {} /\ NonZero(The(r).anio_validez)
                              THEN IF fault = "insertRev" THEN Failed(r2.db)
                                   ELSE insertRevision(r2.db, r1.lastInsertRowid,
                                                       The(The(r).anio_validez),
                                                       TextOrNull(The(r).resultado))
                              ELSE r2
                    IN IF ~r3.ok THEN Failed(r2.db)
                       ELSE Done(r3.db, r1.lastInsertRowid)

\* the transaction of POST /vehiculos: a throw rolls back what it wrote
postVehiculosTx(d, placa, marca, modelo, anio, tipo, numero_chasis, body, createdAt, fault) ==
    LET r1 == IF fault = "insertVeh" THEN Failed(d)
              ELSE insertVehiculo(d, [placa |-> placa, marca |-> marca,
                                      modelo |-> modelo, anio |-> anio,
                                      tipo |-> tipo,
                                      numero_chasis |-> numero_chasis,
                                      created_at |-> createdAt])
    IN IF ~r1.ok THEN Failed(d)
       ELSE LET m  == body.marchamo
                r2 == IF m # {} /\ NonZero(The(m).anio_validez)
                      THEN IF fault = "insertMarch" THEN Failed(r1.db)
                           ELSE insertMarchamo(r1.db, r1.lastInsertRowid,
                                               The(The(m).anio_validez),
                                               The(m).monto,
                                               TextOrNull(The(m).estado))
                      ELSE r1
            IN IF ~r2.ok THEN Failed(d)
               ELSE LET r  == body.revision
                        r3 == IF r # {} /\ NonZero(The(r).anio_validez)
                              THEN IF fault = "insertRev" THEN Failed(r2.db)
                                   ELSE insertRevision(r2.db, r1.lastInsertRowid,
                                                       The(The(r).anio_validez),
                                                       TextOrNull(The(r).resultado))
                              ELSE r2
                    IN IF ~r3.ok THEN Failed(d) ELSE Done(r3.db, r1.lastInsertRowid)

\* mutant: the handler inserts without asking whether the plate is taken
postVehiculos_noExistsCheck(d, body, createdAt, fault) ==
    LET placa         == normalizePlaca(Str(body.placa))
        marca         == Trim(Str(body.marca))
        modelo        == Trim(Str(body.modelo))
        numero_chasis == Trim(Str(body.numero_chasis))
    IN IF placa = <<>> \/ marca = <<>> \/ modelo = <<>> \/ ~NonZero(body.anio)
          \/ numero_chasis = <<>>
       THEN Answer(d, 400, "Campos requeridos: placa, marca, modelo, anio, numero_chasis", 0)
       ELSE LET tx == postVehiculosTx(d, placa, marca, modelo, The(body.anio),
                                      TipoOf(body.tipo), numero_chasis, body,
                                      createdAt, fault)
            IN IF tx.ok THEN Answer(tx.db, 201, "Vehículo creado", 0)
               ELSE Answer(tx.db, 500, "Error creando vehículo", 0)

\* POST /vehiculos; createdAt is nowIso() inside the transaction
postVehiculos(d, body, createdAt, fault) ==
    LET placa         == normalizePlaca(Str(body.placa))
        marca         == Trim(Str(body.marca))
        modelo        == Trim(Str(body.modelo))
        numero_chasis == Trim(Str(body.numero_chasis))
    IN IF placa = <<>> \/ marca = <<>> \/ modelo = <<>> \/ ~NonZero(body.anio)
          \/ numero_chasis = <<>>
       THEN Answer(d, 400, "Campos requeridos: placa, marca, modelo, anio, numero_chasis", 0)
       ELSE IF vehiculoByPlaca(d, placa) # {}
       THEN Answer(d, 409, "Ya existe un vehículo con esa placa", 1)
       ELSE LET tx == postVehiculosTx(d, placa, marca, modelo, The(body.anio),
                                      TipoOf(body.tipo), numero_chasis, body,
                                      createdAt, fault)
            IN IF tx.ok THEN Answer(tx.db, 201, "Vehículo creado", 1)
               ELSE Answer(tx.db, 500, "Error creando vehículo", 1)

\* mutant: the UPDATE has no WHERE clause and rewrites every vehicle
updateVehiculo_all(d, placa, marca, modelo, anio, tipo, numero_chasis) ==
    [d EXCEPT !.vehiculos =
        {[v EXCEPT !.marca = marca, !.modelo = modelo, !.anio = anio,
                   !.tipo = tipo, !.numero_chasis = numero_chasis] : v \in @}]

\* UPDATE vehiculos SET ... WHERE placa = ?
updateVehiculo(d, placa, marca, modelo, anio, tipo, numero_chasis) ==
    [d EXCEPT !.vehiculos =
        {IF v.placa = placa
         THEN [v EXCEPT !.marca = marca, !.modelo = modelo, !.anio = anio,
                        !.tipo = tipo, !.numero_chasis = numero_chasis]
         ELSE v : v \in @}]

\* mutant: the handler updates without looking at what would be stored
putVehiculo_unchecked(d, param, body) ==
    LET placa == normalizePlaca(param) IN
    IF placa = <<>> THEN Answer(d, 400, "Placa requerida", 0)
    ELSE IF vehiculoByPlaca(d, placa) = {}
    THEN Answer(d, 404, "Vehículo no encontrado", 1)
    ELSE LET veh    == The(vehiculoByPlaca(d, placa))
             marca  == IF body.marca # {} THEN Trim(The(body.marca)) ELSE veh.marca
             modelo == IF body.modelo # {} THEN Trim(The(body.modelo)) ELSE veh.modelo
             anio   == IF body.anio # {} THEN The(body.anio) ELSE veh.anio
             tipo   == IF body.tipo # {} THEN TipoOf(body.tipo) ELSE veh.tipo
             numero_chasis == IF body.numero_chasis # {}
                              THEN Trim(The(body.numero_chasis))
                              ELSE veh.numero_chasis
         IN Answer(updateVehiculo(d, placa, marca, modelo, anio, tipo,
                                  numero_chasis),
                   200, "Vehículo actualizado", 1)

\* PUT /vehiculos/:placa (in src/unnamed/part_000 the first of the two
\* registrations answers every request)
putVehiculo(d, param, body) ==
    LET placa == normalizePlaca(param) IN
    IF placa = <<>> THEN Answer(d, 400, "Placa requerida", 0)
    ELSE IF vehiculoByPlaca(d, placa) = {}
    THEN Answer(d, 404, "Vehículo no encontrado", 1)
    ELSE LET veh    == The(vehiculoByPlaca(d, placa))
             marca  == IF body.marca # {} THEN Trim(The(body.marca)) ELSE veh.marca
             modelo == IF body.modelo # {} THEN Trim(The(body.modelo)) ELSE veh.modelo
             anio   == IF body.anio # {} THEN The(body.anio) ELSE veh.anio
             tipo   == IF body.tipo # {} THEN TipoOf(body.tipo) ELSE veh.tipo
             numero_chasis == IF body.numero_chasis # {}
                              THEN Trim(The(body.numero_chasis))
                              ELSE veh.numero_chasis
         IN IF variant # "part000"
               /\ (marca = <<>> \/ modelo = <<>> \/ anio = 0 \/ numero_chasis = <<>>)
            THEN Answer(d, 400, "marca, modelo, anio y numero_chasis no pueden quedar vacíos", 1)
            ELSE Answer(updateVehiculo(d, placa, marca, modelo, anio, tipo,
                                       numero_chasis),
                        200, "Vehículo actualizado", 1)

\* mutant: every history row is deleted, whatever vehicle it belongs to
deleteVehiculoByPlaca_allHistory(d, param) ==
    LET placa == normalizePlaca(param) IN
    IF placa = <<>> THEN Answer(d, 400, "Placa requerida", 0)
    ELSE IF vehiculoByPlaca(d, placa) = {} THEN Answer(d, 404, "No existe", 1)
    ELSE LET veh == The(vehiculoByPlaca(d, placa))
         IN Answer([d EXCEPT !.vehiculos = {v \in @ : v.id # veh.id},
                             !.marchamos = {},
                             !.revisiones_vehiculares = {}], 200, "", 1)

\* DELETE /vehiculos/:placa
deleteVehiculoByPlaca(d, param) ==
    LET placa == normalizePlaca(param) IN
    IF placa = <<>> THEN Answer(d, 400, "Placa requerida", 0)
    ELSE IF vehiculoByPlaca(d, placa) = {} THEN Answer(d, 404, "No existe", 1)
    ELSE LET veh == The(vehiculoByPlaca(d, placa))
         IN Answer(deleteVehiculo(deleteRevisiones(deleteMarchamos(d, veh.id),
                                                   veh.id), veh.id),
                   200, "", 1)

\* the estado and resultado columns of the two history endpoints
HistoryText(f) == IF variant = "part000" THEN TextOrNull(f) ELSE toNullableString(f)

\* POST /vehiculos/:placa/marchamo
postMarchamo(d, param, body) ==
    LET placa == normalizePlaca(param) IN
    IF placa = <<>> \/ ~NonZero(body.anio_validez)
    THEN Answer(d, 400, "Requiere placa y anio_validez", 0)
    ELSE IF vehiculoByPlaca(d, placa) = {}
    THEN Answer(d, 404, "Vehículo no encontrado", 1)
    ELSE LET veh == The(vehiculoByPlaca(d, placa))
             r   == insertMarchamo(d, veh.id, The(body.anio_validez), body.monto,
                                   HistoryText(body.estado))
         IN IF r.ok THEN Answer(r.db, 201, "Marchamo registrado", 1)
            ELSE Answer(d, 500, "Error registrando marchamo", 1)

\* POST /vehiculos/:placa/revision
postRevision(d, param, body) ==
    LET placa == normalizePlaca(param) IN
    IF placa = <<>> \/ ~NonZero(body.anio_validez)
    THEN Answer(d, 400, "Requiere placa y anio_validez", 0)
    ELSE IF vehiculoByPlaca(d, placa) = {}
    THEN Answer(d, 404, "Vehículo no encontrado", 1)
    ELSE LET veh == The(vehiculoByPlaca(d, placa))
             r   == insertRevision(d, veh.id, The(body.anio_validez),
                                   HistoryText(body.resultado))
         IN IF r.ok THEN Answer(r.db, 201, "Revisión registrada", 1)
            ELSE Answer(d, 500, "Error registrando revisión", 1)

\* mutant: the token is made before the store is asked for the vehicle
getToken_noLookup(d, param) ==
    LET placa == normalizePlaca(param) IN
    IF placa = <<>> THEN Answer(d, 400, "Placa requerida", 0)
    ELSE [Answer(d, 200, "", 0) EXCEPT !.token = makeQrToken(placa),
                                       !.placa = placa]

\* GET /token/:placa
getToken(d, param) ==
    LET placa == normalizePlaca(param) IN
    IF placa = <<>> THEN Answer(d, 400, "Placa requerida", 0)
    ELSE IF vehiculoByPlaca(d, placa) = {}
    THEN Answer(d, 404, "Vehículo no encontrado", 1)
    ELSE [Answer(d, 200, "", 1) EXCEPT !.token = makeQrToken(placa),
                                       !.placa = placa]

\* GET /qr/:placa.png
getQrPng(d, param) ==
    LET placa == normalizePlaca(param) IN
    IF placa = <<>> THEN Answer(d, 400, "Placa requerida", 0)
    ELSE IF vehiculoByPlaca(d, placa) = {}
    THEN Answer(d, 404, "Vehículo no encontrado", 1)
    ELSE [Answer(d, 200, "", 1) EXCEPT !.token = makeQrToken(placa),
                                       !.placa = placa]

\* GET /qr-print/:placa.png; drawn tells whether the image got rendered
getQrPrint(d, param, drawn) ==
    LET placa == normalizePlaca(param) IN
    IF placa = <<>> THEN Answer(d, 400, "Placa requerida", 0)
    ELSE IF vehiculoByPlaca(d, placa) = {}
    THEN Answer(d, 404, "Vehículo no encontrado", 1)
    ELSE IF ~drawn THEN Answer(d, 500, "Error generando QR printable", 2)
    ELSE [Answer(d, 200, "", 2) EXCEPT !.token = makeQrToken(placa),
                                       !.placa = placa]

\* mutant: the handler tells a malformed token from a wrongly signed one
getQrVerify_telling(d, token) ==
    LET parsed == verifyQrToken(token) IN
    IF parsed.kind # "ok"
    THEN IF Len(Split(token)) # 2 THEN Answer(d, 422, "Token inválido", 0)
         ELSE Answer(d, 400, "Token inválido", 0)
    ELSE IF vehiculoByPlaca(d, parsed.placa) = {}
    THEN Answer(d, 404, "Vehículo no encontrado", 1)
    ELSE [Answer(d, 200, "", 1) EXCEPT !.placa = parsed.placa]

\* GET /qr/verify/:token of src/server.ts; a throw of verifyQrToken would
\* reach the error handler
getQrVerify(d, token) ==
    LET parsed == verifyQrToken(token) IN
    IF parsed = Thrown THEN Answer(d, 500, "Error interno", 0)
    ELSE IF parsed = Null THEN Answer(d, 400, "Token inválido", 0)
    ELSE IF vehiculoByPlaca(d, parsed.placa) = {}
    THEN Answer(d, 404, "Vehículo no encontrado", 1)
    ELSE [Answer(d, 200, "", 1) EXCEPT !.placa = parsed.placa]

\* GET /qr/info/:token of src/unnamed/part_000
getQrInfo(d, token) ==
    LET verified == verifyQrToken(token) IN
    IF verified = Thrown THEN Answer(d, 500, "", 0)
    ELSE IF verified = Null THEN Answer(d, 401, "QR inválido", 0)
    ELSE [Answer(d, 200, "", 0) EXCEPT !.placa = verified.placa]

\* GET /qr/lookup/:token of src/unnamed/part_000
getQrLookup(d, token) ==
    LET verified == verifyQrToken(token) IN
    IF verified = Thrown THEN Answer(d, 500, "", 0)
    ELSE IF verified = Null THEN Answer(d, 401, "QR inválido", 0)
    ELSE IF vehiculoByPlaca(d, verified.placa) = {}
    THEN Answer(d, 404, "Vehículo no encontrado", 1)
    ELSE [Answer(d, 200, "", 3) EXCEPT !.placa = verified.placa]

\* MAX(anio_validez) over a non-empty set of history rows
MaxAnio(rows) ==
    CHOOSE y \in {r.anio_validez : r \in rows} : \A r \in rows : r.anio_validez <= y

\* the history rows of one vehicle
RowsOf(rows, vehiculo_id) == {r \in rows : r.vehiculo_id = vehiculo_id}

\* vehiculos v LEFT JOIN marchamos m ON m.vehiculo_id = v.id AND
\* m.anio_validez = (SELECT MAX(...)): the pairs the ON condition matches
JoinPairs(d) ==
    {p \in d.vehiculos \X d.marchamos :
        /\ p[2].vehiculo_id = p[1].id
        /\ p[2].anio_validez = MaxAnio(RowsOf(d.marchamos, p[1].id))}

\* the vehicles the ON condition matches with no marchamo
Unmatched(d) == {v \in d.vehiculos : RowsOf(d.marchamos, v.id) = {}}

\* one row of the SELECT list of GET /vehiculos
ItemOf(v, marchamo_anio, marchamo_estado) ==
    [id |-> v.id, placa |-> v.placa, marca |-> v.marca, modelo |-> v.modelo,
     anio |-> v.anio, tipo |-> v.tipo, numero_chasis |-> v.numero_chasis,
     marchamo_anio |-> marchamo_anio, marchamo_estado |-> marchamo_estado]

ItemOfPair(p) == ItemOf(p[1], {p[2].anio_validez}, p[2].estado)

\* GET /vehiculos; items is the bag of the rows of the join (how often each
\* row is in the array), the order of the array is left out
getVehiculos(d) ==
    LET pairs == JoinPairs(d)
        alone == Unmatched(d)
        rows  == {ItemOfPair(p) : p \in pairs} \cup {ItemOf(v, {}, {}) : v \in alone}
    IN [Answer(d, 200, "", 1) EXCEPT
           !.items = [r \in rows |->
                         Cardinality({p \in pairs : ItemOfPair(p) = r})
                         + Cardinality({v \in alone : ItemOf(v, {}, {}) = r})],
           !.total = Cardinality(pairs) + Cardinality(alone)]

\* mutant: the query has no ORDER BY and returns any row
Latest_unordered(rows) ==
    IF rows = {} THEN {{}} ELSE {{r} : r \in rows}

\* what SELECT ... ORDER BY anio_validez DESC LIMIT 1 can return: nothing
\* when there is no row, else any one of the rows of the highest year
Latest(rows) ==
    IF rows = {} THEN {{}}
    ELSE {{r} : r \in {x \in rows : x.anio_validez = MaxAnio(rows)}}

\* GET /consulta/:placa; marchamo and revision are the rows the two
\* LIMIT 1 queries returned
getConsulta(d, param, marchamo, revision) ==
    LET placa == normalizePlaca(param) IN
    IF placa = <<>> THEN Answer(d, 400, "Placa requerida", 0)
    ELSE IF vehiculoByPlaca(d, placa) = {}
    THEN Answer(d, 404, "Vehículo no encontrado", 1)
    ELSE [Answer(d, 200, "", 3) EXCEPT !.placa = The(vehiculoByPlaca(d, placa)).placa,
                                       !.ultimo_marchamo = marchamo,
                                       !.ultima_revision = revision]

\* the rows the two queries of GET /consulta/:placa can return for param
ConsultaRows(d, param, table) ==
    LET veh == vehiculoByPlaca(d, normalizePlaca(param))
    IN IF veh = {} THEN {{}} ELSE Latest(RowsOf(table, The(veh).id))

\* the plates requests carry: "abc123" (a seed plate in lower case), "z9"
\* and " "
Abc123 == <<97, 98, 99, 49, 50, 51>>
Z9 == <<122, 57>>
PlateParams == {Abc123, Z9, <<32>>}

\* the body of a POST /vehiculos with every required field, for plate p
FullBody(p) ==
    [EmptyBody EXCEPT !.placa = {p}, !.marca = {<<32, 75>>}, !.modelo = {<<77>>},
                      !.anio = {2020}, !.numero_chasis = {<<78>>}]

MarchamoOf(y) == [anio_validez |-> {y}, monto |-> {}, estado |-> {}]
RevisionOf(y) == [anio_validez |-> {y}, resultado |-> {}]

PostBodies ==
    {EmptyBody, FullBody(<<32>>)} \cup UNION {
        {FullBody(p),
         [FullBody(p) EXCEPT !.marchamo = {MarchamoOf(2027)}],
         [FullBody(p) EXCEPT !.marca = {<<32>>}]} : p \in {Abc123, Z9}}
    \cup {[FullBody(Z9) EXCEPT !.marchamo = {MarchamoOf(0)},
                               !.revision = {RevisionOf(2027)}],
          [FullBody(Z9) EXCEPT !.modelo = {}],
          [FullBody(Z9) EXCEPT !.anio = {0}],
          [FullBody(Z9) EXCEPT !.numero_chasis = {}]}

\* what nowIso() reads while requests are served
Times == {1}

PutBodies ==
    {EmptyBody,
     [EmptyBody EXCEPT !.marca = {<<75>>}],
     [EmptyBody EXCEPT !.marca = {<<32>>}],
     [EmptyBody EXCEPT !.marchamo = {MarchamoOf(2027)}],
     [EmptyBody EXCEPT !.rtv = {RevisionOf(2027)}]}

HistoryBodies == {EmptyBody, [EmptyBody EXCEPT !.anio_validez = {2027}]}

\* the tokens a client sends to the verification endpoints: the token it
\* holds, that token with the payload or the signature changed, cut short or
\* with a third segment, and texts that never were a token
VerifyTokens ==
    IF held = NoToken THEN {<<81>>, <<81, 46, 81>>}
    ELSE LET t == held.token
             n == Len(t)
         IN {t,
             [t EXCEPT ![1] = IF t[1] = 81 THEN 82 ELSE 81],
             [t EXCEPT ![n] = UrlChar((Unbase64(t[n]) + 1) % 64)],
             SubSeq(t, 1, n - 1),
             t \o <<Dot, 81>>,
             Split(t)[1]}

\* rows of d1 that are not rows of d2
Delta(d1, d2) ==
    [vehiculos              |-> d1.vehiculos \ d2.vehiculos,
     marchamos              |-> d1.marchamos \ d2.marchamos,
     revisiones_vehiculares |-> d1.revisiones_vehiculares \ d2.revisiones_vehiculares]

\* the ids the model lets the tables hand out
WithinBounds(d) ==
    d.sqlite_sequence.vehiculos + d.sqlite_sequence.marchamos
        + d.sqlite_sequence.revisiones_vehiculares
    <= 3 * Len(SeedVehiculos) + MaxWrites

\* no request is being answered
Quiet == listening /\ http = NoHttp

\* the handler of request (op, param, body) answers out; a client that is
\* sent a token keeps it
Respond(op, param, body, out) ==
    /\ Quiet
    /\ WithinBounds(out.db)
    /\ db' = out.db
    /\ http' = [op |-> op, param |-> param, body |-> body,
                status |-> out.status, message |-> out.message,
                token |-> out.token, placa |-> out.placa,
                lookups |-> out.lookups,
                total |-> out.total, items |-> out.items,
                ultimo_marchamo |-> out.ultimo_marchamo,
                ultima_revision |-> out.ultima_revision,
                added |-> Delta(out.db, db), removed |-> Delta(db, out.db)]
    /\ held' = IF out.token = <<>> THEN held
               ELSE [token |-> out.token, placa |-> param, secret |-> QR_SECRET,
                     prev  |-> <<>>]
    /\ UNCHANGED <<variant, env, QR_SECRET, result, SEED_ON_START, listening>>

InitStore ==
    /\ variant \in {"server", "part000"}
    /\ env = {}
    /\ QR_SECRET = SecretOf(env)
    /\ held = NoToken
    /\ result = NoResult
    /\ SEED_ON_START \in SeedEnvValues
    /\ listening = FALSE
    /\ db = FreshDb
    /\ http = NoHttp

\* the process starts: the boot code runs, then app.listen
Boot ==
    /\ ~listening
    /\ listening' = TRUE
    /\ db' = boot(db, SEED_ON_START)
    /\ http' = [NoHttp EXCEPT !.op = "boot",
                              !.added = Delta(boot(db, SEED_ON_START), db),
                              !.removed = Delta(db, boot(db, SEED_ON_START))]
    /\ UNCHANGED <<variant, env, QR_SECRET, held, result, SEED_ON_START>>

\* the process is stopped; the database file stays, and the next start may
\* see another environment
Stop(e) ==
    /\ Quiet
    /\ listening' = FALSE
    /\ SEED_ON_START' = e
    /\ UNCHANGED <<variant, env, QR_SECRET, held, result, db, http>>

PostVehiculos(body, now, fault) ==
    Respond("POST /vehiculos", <<>>, body, postVehiculos(db, body, now, fault))

PutVehiculo(p, body) ==
    Respond("PUT /vehiculos/:placa", p, body, putVehiculo(db, p, body))

DeleteVehiculo(p) ==
    Respond("DELETE /vehiculos/:placa", p, EmptyBody, deleteVehiculoByPlaca(db, p))

PostMarchamo(p, body) ==
    Respond("POST /vehiculos/:placa/marchamo", p, body, postMarchamo(db, p, body))

PostRevision(p, body) ==
    Respond("POST /vehiculos/:placa/revision", p, body, postRevision(db, p, body))

GetToken(p) ==
    Respond("GET /token/:placa", p, EmptyBody, getToken(db, p))

GetQrPng(p) ==
    Respond("GET /qr/:placa.png", p, EmptyBody, getQrPng(db, p))

GetQrPrint(p, drawn) ==
    Respond("GET /qr-print/:placa.png", p, EmptyBody, getQrPrint(db, p, drawn))

GetQrVerify(t) ==
    /\ variant = "server"
    /\ Respond("GET /qr/verify/:token", t, EmptyBody, getQrVerify(db, t))

GetQrInfo(t) ==
    /\ variant = "part000"
    /\ Respond("GET /qr/info/:token", t, EmptyBody, getQrInfo(db, t))

GetQrLookup(t) ==
    /\ variant = "part000"
    /\ Respond("GET /qr/lookup/:token", t, EmptyBody, getQrLookup(db, t))

GetVehiculos == Respond("GET /vehiculos", <<>>, EmptyBody, getVehiculos(db))

GetConsulta(p, marchamo, revision) ==
    Respond("GET /consulta/:placa", p, EmptyBody,
            getConsulta(db, p, marchamo, revision))

\* the client reads the answer
Receive ==
    /\ http # NoHttp
    /\ http' = NoHttp
    /\ UNCHANGED <<variant, env, QR_SECRET, held, result, SEED_ON_START,
                   listening, db>>

NextStore ==
    \/ Boot
    \/ Receive
    \/ \E e \in SeedEnvValues : Stop(e)
    \/ \E body \in PostBodies : \E now \in Times : \E fault \in Faults :
          PostVehiculos(body, now, fault)
    \/ \E p \in PlateParams : \E body \in PutBodies : PutVehiculo(p, body)
    \/ \E p \in PlateParams : DeleteVehiculo(p)
    \/ \E p \in PlateParams : \E body \in HistoryBodies : PostMarchamo(p, body)
    \/ \E p \in PlateParams : \E body \in HistoryBodies : PostRevision(p, body)
    \/ GetVehiculos
    \/ \E p \in PlateParams :
          \E marchamo \in ConsultaRows(db, p, db.marchamos) :
             \E revision \in ConsultaRows(db, p, db.revisiones_vehiculares) :
                GetConsulta(p, marchamo, revision)
    \/ \E p \in PlateParams : GetToken(p)
    \/ \E p \in PlateParams : GetQrPng(p)
    \/ \E p \in PlateParams : \E drawn \in BOOLEAN : GetQrPrint(p, drawn)
    \/ \E t \in IF Quiet /\ variant = "server" THEN VerifyTokens ELSE {} :
          GetQrVerify(t)
    \/ \E t \in IF Quiet /\ variant = "part000" THEN VerifyTokens ELSE {} :
          GetQrInfo(t)
    \/ \E t \in IF Quiet /\ variant = "part000" THEN VerifyTokens ELSE {} :
          GetQrLookup(t)

SpecStore == InitStore /\ [][NextStore]_vars

----------------------------------------------------------------------------
(* Vocabulary of the properties *)

DotCount(t) == Cardinality({i \in 1..Len(t) : t[i] = Dot})

\* position of the first "." of t (Len(t) + 1 when there is none)
DotPos(t) ==
    IF DotCount(t) = 0 THEN Len(t) + 1
    ELSE CHOOSE i \in 1..Len(t) : t[i] = Dot /\ \A j \in 1..(i - 1) : t[j] # Dot

\* b is a with exactly the character at position i changed
ChangedAt(a, b, i) ==
    /\ Len(a) = Len(b)
    /\ i \in 1..Len(a)
    /\ a[i] # b[i]
    /\ \A j \in 1..Len(a) : j # i => a[j] = b[j]

Verified == result.op = "verify"

\* the client holds a token that was issued under the secret of the running
\* process
HoldsValid == held # NoToken /\ held.secret = QR_SECRET

\* the verified token is the held valid one with one payload character changed
PayloadTampered ==
    /\ Verified /\ HoldsValid
    /\ \E i \in 1..(DotPos(held.token) - 1) : ChangedAt(held.token, result.arg, i)

\* the verified token is the held valid one with one signature character changed
SigTampered ==
    /\ Verified /\ HoldsValid
    /\ \E i \in (DotPos(held.token) + 1)..Len(held.token) :
          ChangedAt(held.token, result.arg, i)

\* the two segments of a verified token that has exactly one "."
ArgPayload == SubSeq(result.arg, 1, DotPos(result.arg) - 1)
ArgSig == SubSeq(result.arg, DotPos(result.arg) + 1, Len(result.arg))
ArgDecoded == fromBase64UrlToString(ArgPayload)
ArgDigest == Hmac(QR_SECRET, Utf8Encode(ArgDecoded))

IsBase64UrlChar(c) ==
    c \in 65..90 \/ c \in 97..122 \/ c \in 48..57 \/ c = 45 \/ c = 95

----------------------------------------------------------------------------
(* Properties *)

\* C1: round trip.  Under a fixed secret, verifying the token makeQrToken
\* returned for a non-empty plate p succeeds and yields p trimmed and
\* upper-cased (src/server.ts and src/unnamed/part_000; src/src/server.ts
\* signs and returns the plate as given).
C1_RoundTrip ==
    (Verified /\ HoldsValid /\ result.arg = held.token /\ variant # "srcServer")
        => (result.kind = "ok" /\ result.val = ToUpperCase(Trim(held.placa)))

C1_Witness ==
    /\ Verified /\ HoldsValid /\ result.arg = held.token /\ variant = "server"
    /\ held.placa = <<32, 241>>
    /\ result.kind = "ok" /\ result.val = <<209>>

\* C2: a valid token with one character of its payload segment changed and
\* its signature segment untouched is rejected.
C2_PayloadTamperRejected == PayloadTampered => result.kind = "null"

\* C3: a valid token with one character of its signature segment changed is
\* rejected.
C3_SigTamperRejected == SigTampered => result.kind = "null"

C3_Witness ==
    /\ SigTampered /\ result.kind = "null"
    /\ ChangedAt(held.token, result.arg, Len(held.token))
    /\ Base64Decode(ArgSig) = ArgDigest

\* C4 (as claimed): a token with two segments is accepted exactly when its
\* signature segment decodes to the HMAC recomputed over the decoded payload.
C4_AcceptIffDigestDecodes ==
    (Verified /\ DotCount(result.arg) = 1)
        => (result.kind = "ok" <=> Base64Decode(ArgSig) = ArgDigest)

\* C4 (amended): a token is accepted exactly when it has one "." and its
\* signature segment is, character for character, the base64url text of the
\* HMAC recomputed over the decoded payload under the process secret.
C4_AcceptIffSigText ==
    Verified
        => (result.kind = "ok"
              <=> (DotCount(result.arg) = 1 /\ ArgSig = base64url(ArgDigest)))

C4_Witness ==
    /\ Verified /\ DotCount(result.arg) = 1
    /\ ArgSig # base64url(ArgDigest)
    /\ Base64Decode(ArgSig) = ArgDigest
    /\ result.kind = "null"

\* C5: a token whose first segment has a character outside the base64url
\* alphabet is rejected, whatever its signature segment.
C5_IllFormedPayloadRejected ==
    (Verified /\ DotCount(result.arg) = 1
       /\ \E i \in 1..Len(ArgPayload) : ~IsBase64UrlChar(ArgPayload[i]))
        => result.kind = "null"

\* C6: verifyQrToken never throws; a token it does not accept gives the one
\* outcome null, also when the signature segment has another length than
\* the expected signature.
C6_NeverThrows ==
    Verified
        => /\ result.kind \in {"ok", "null"}
           /\ result.kind = "null" => result.val = <<>>
           /\ (DotCount(result.arg) = 1 /\ Len(ArgSig) # Len(base64url(ArgDigest)))
                 => result.kind = "null"

C6_Witness ==
    /\ Verified /\ DotCount(result.arg) = 1
    /\ Len(ArgSig) = Len(base64url(ArgDigest)) - 1
    /\ result.kind = "null"

\* C7: a string with no "." or with two or more "." is rejected.
C7_MalformedRejected ==
    (Verified /\ DotCount(result.arg) # 1) => result.kind = "null"

C7_Witness ==
    /\ Verified /\ HoldsValid /\ DotCount(result.arg) = 2
    /\ result.arg = held.token \o <<46, 81>>
    /\ result.kind = "null"

\* C8: a token issued while the process secret was s1 is rejected by a
\* process whose secret is another s2.
C8_SecretSensitivity ==
    (Verified /\ held # NoToken /\ result.arg = held.token /\ held.secret # QR_SECRET)
        => result.kind = "null"

C8_Witness ==
    /\ Verified /\ held # NoToken /\ result.arg = held.token
    /\ held.secret = DefaultSecret /\ QR_SECRET = "k1"
    /\ result.kind = "null"

\* C9: makeQrToken does not fail, and a call with the plate and the secret
\* of an earlier call returns the token the earlier call returned, whatever
\* was called in between.
C9_IssueDeterministic ==
    /\ result.op = "issue" => (result.kind = "ok" /\ result.val = held.token)
    /\ held.prev # <<>> => held.token = held.prev

C9_Witness ==
    /\ result.op = "issue" /\ result.kind = "ok"
    /\ held.prev # <<>> /\ held.token = held.prev

\* C10 (as claimed): on success the plate returned is the text decoded from
\* the payload segment, not normalized again.
C10_ReturnsDecoded ==
    (Verified /\ result.kind = "ok") => result.val = ArgDecoded

\* C10 (amended): on success src/server.ts and src/unnamed/part_000 return
\* the decoded payload trimmed and upper-cased again; src/src/server.ts
\* returns it as decoded.
C10_ReturnsNormalizedDecoded ==
    (Verified /\ result.kind = "ok")
        => result.val = (IF variant = "srcServer" THEN ArgDecoded
                         ELSE ToUpperCase(Trim(ArgDecoded)))

C10_Witness ==
    /\ Verified /\ result.kind = "ok" /\ variant = "server"
    /\ ArgDecoded = <<97>> /\ result.val = <<65>>

\* the two segments of a token makeQrToken returned
ValPayload == SubSeq(result.val, 1, DotPos(result.val) - 1)
ValSig == SubSeq(result.val, DotPos(result.val) + 1, Len(result.val))

\* C11: for every plate handed to makeQrToken the payload segment of the
\* token decodes to the plate trimmed and upper-cased.
C11_EmbedsNormalized ==
    result.op = "issue"
        => fromBase64UrlToString(ValPayload) = ToUpperCase(Trim(result.arg))

\* C12: a token makeQrToken returns is base64url(payload) "." base64url(HMAC
\* of the payload): it has exactly one "." and no "+", "/" or "=" (the
\* payload is the normalized plate, in src/src/server.ts the plate as given).
C12_TokenForm ==
    result.op = "issue"
        => LET payload == IF variant = "srcServer" THEN result.arg
                          ELSE ToUpperCase(Trim(result.arg))
               bytes   == Utf8Encode(payload)
           IN /\ DotCount(result.val) = 1
              /\ \A i \in 1..Len(result.val) : result.val[i] \notin {43, 47, 61}
              /\ ValPayload = StripPad(ReplaceAll(ReplaceAll(Base64Encode(bytes), 43, 45), 47, 95))
              /\ Len(ValSig) = 43
              /\ Base64Decode(ValSig) = Hmac(QR_SECRET, bytes)

C12_Witness ==
    /\ result.op = "issue"
    /\ Len(ValPayload) % 4 # 0
    /\ \E i \in 1..Len(ValSig) : ValSig[i] \in {45, 95}
    /\ DotCount(result.val) = 1

----------------------------------------------------------------------------
(* Properties of the service *)

IssueOps == {"GET /token/:placa", "GET /qr/:placa.png", "GET /qr-print/:placa.png"}
VerifyOps == {"GET /qr/verify/:token", "GET /qr/info/:token", "GET /qr/lookup/:token"}

\* the store as it was when the request in http came in
Before ==
    [vehiculos |-> (db.vehiculos \ http.added.vehiculos) \cup http.removed.vehiculos,
     marchamos |-> (db.marchamos \ http.added.marchamos) \cup http.removed.marchamos,
     revisiones_vehiculares |->
         (db.revisiones_vehiculares \ http.added.revisiones_vehiculares)
             \cup http.removed.revisiones_vehiculares]

StoreUntouched == http.added = NoDelta /\ http.removed = NoDelta

\* the plate a request names, trimmed and upper-cased
AskedPlaca ==
    ToUpperCase(Trim(IF http.op = "POST /vehiculos" THEN Str(http.body.placa)
                     ELSE http.param))

\* C13: a token the service handed out is honoured by the verification
\* endpoints at every later point of the process, whatever was created,
\* updated or deleted in between, and no token endpoint writes to the store
\* or changes the secret.
C13_NeverExpires ==
    /\ QR_SECRET = SecretOf(env)
    /\ http.op \in IssueOps \cup VerifyOps => StoreUntouched
    /\ (http.op \in VerifyOps /\ held # NoToken /\ http.param = held.token)
           => /\ http.status \in {200, 404}
              /\ http.status = 200 => http.placa = ToUpperCase(Trim(held.placa))
              /\ http.status = 404
                     => ~\E v \in db.vehiculos : v.placa = ToUpperCase(Trim(held.placa))

C13_Witness ==
    /\ http.op \in VerifyOps
    /\ held # NoToken
    /\ http.param = held.token
    /\ http.status = 404
    /\ http.removed = NoDelta

\* C14: a token verifyQrToken rejects gets one answer per server, 400
\* "Token inválido" from GET /qr/verify of src/server.ts and 401 "QR inválido"
\* from GET /qr/info and GET /qr/lookup of src/unnamed/part_000, whichever
\* step of the validation failed, and the store is not asked anything.
C14_OneRejection ==
    (http.op \in VerifyOps /\ verifyQrToken(http.param).kind # "ok")
        => /\ http.lookups = 0
           /\ StoreUntouched
           /\ http.placa = <<>>
           /\ IF variant = "server"
              THEN http.status = 400 /\ http.message = "Token inválido"
              ELSE http.status = 401 /\ http.message = "QR inválido"

\* a token that fails at the length check of the signature was answered
C14_Witness ==
    /\ http.op \in VerifyOps
    /\ held # NoToken
    /\ http.param = SubSeq(held.token, 1, Len(held.token) - 1)
    /\ http.status \in {400, 401}
    /\ http.lookups = 0

\* C15: the three issuing endpoints hand out a token only for a plate that,
\* normalized, is the plate of a stored vehicle when the request is served,
\* and then it is makeQrToken of that plate; with no such vehicle they answer
\* 404, for a plate that normalizes to the empty text 400, and no token.
C15_IssueOnlyForStored ==
    http.op \in IssueOps
        => LET stored == \E v \in db.vehiculos : v.placa = AskedPlaca
           IN /\ http.token # <<>> => stored /\ http.status = 200
              /\ http.token # <<>> => http.token = makeQrToken(AskedPlaca)
              /\ (AskedPlaca = <<>>) => http.status = 400 /\ http.token = <<>>
              /\ (AskedPlaca # <<>> /\ ~stored) => http.status = 404 /\ http.token = <<>>
              /\ stored => \/ http.status = 200 /\ http.token # <<>>
                           \/ /\ http.op = "GET /qr-print/:placa.png"
                              /\ http.status = 500

\* the plate of a deleted seed vehicle is refused a token
C15_Witness ==
    /\ http.op \in IssueOps
    /\ http.status = 404
    /\ AskedPlaca = ToUpperCase(Abc123)
    /\ http.token = <<>>

\* C17: a start of the process with SEED_ON_START unset writes no seed
\* vehicle, whatever the vehicles table holds.
C17_SeedsOnlyOnFlag ==
    (http.op = "boot" /\ SEED_ON_START = {}) => http.added.vehiculos = {}

\* the seed as seedDb writes it: 15 vehicles with the plates of the list,
\* each with one marchamo and one revision of the seed year
IsSeed(delta) ==
    /\ Cardinality(delta.vehiculos) = 15
    /\ {v.placa : v \in delta.vehiculos}
           = {SeedVehiculos[i].placa : i \in 1..Len(SeedVehiculos)}
    /\ \A v \in delta.vehiculos :
          /\ Cardinality({m \in delta.marchamos : m.vehiculo_id = v.id}) = 1
          /\ Cardinality({r \in delta.revisiones_vehiculares : r.vehiculo_id = v.id}) = 1
    /\ Cardinality(delta.marchamos) = 15
    /\ Cardinality(delta.revisiones_vehiculares) = 15
    /\ \A m \in delta.marchamos : m.anio_validez = 2026
    /\ \A r \in delta.revisiones_vehiculares : r.anio_validez = 2026

\* C18: seedDb writes the 15 seed vehicles, each with one marchamo and one
\* revision, when the vehicles table is empty, changes nothing when the
\* table holds a vehicle, and run twice leaves what one run leaves.
C18_SeedIdempotent ==
    /\ seedDb(seedDb(db)) = seedDb(db)
    /\ db.vehiculos # {} => seedDb(db) = db
    /\ db.vehiculos = {}
           => /\ IsSeed(Delta(seedDb(db), db))
              /\ Delta(db, seedDb(db)) = NoDelta
    /\ http.op = "boot"
           => /\ http.removed = NoDelta
              /\ http.added = NoDelta \/ (IsSeed(http.added) /\ Before.vehiculos = {})
              /\ Before.vehiculos # {} => http.added = NoDelta

\* a restart over a store from which a seed vehicle was deleted
C18_Witness ==
    /\ http.op = "boot"
    /\ http.added = NoDelta
    /\ db.vehiculos # {}
    /\ ~\E v \in db.vehiculos : v.placa = ToUpperCase(Abc123)

\* the required fields of a POST /vehiculos body are all there
RequiredPresent(body) ==
    /\ Trim(Str(body.marca)) # <<>>
    /\ Trim(Str(body.modelo)) # <<>>
    /\ Trim(Str(body.numero_chasis)) # <<>>
    /\ body.anio # {}
    /\ The(body.anio) # 0

PlateTaken == \E v \in Before.vehiculos : v.placa = AskedPlaca

\* C19 as stated: no two stored vehicles share a plate, and a POST
\* /vehiculos whose plate, normalized, is already stored is answered 409 and
\* writes nothing.
C19_DuplicateIs409 ==
    /\ \A v, w \in db.vehiculos : v.placa = w.placa => v = w
    /\ (http.op = "POST /vehiculos" /\ PlateTaken)
           => http.status = 409 /\ StoreUntouched

\* C19: no two stored vehicles share a plate; a POST /vehiculos whose plate,
\* normalized, is already stored writes nothing, and is answered 409 when
\* the body has every required field and 400 when one is missing.
C19_PlateUnique ==
    /\ \A v, w \in db.vehiculos : v.placa = w.placa => v = w
    /\ (http.op = "POST /vehiculos" /\ PlateTaken)
           => /\ StoreUntouched
              /\ http.status = IF RequiredPresent(http.body) THEN 409 ELSE 400

C19_Witness ==
    /\ http.op = "POST /vehiculos"
    /\ PlateTaken
    /\ http.status = 409
    /\ Str(http.body.placa) # AskedPlaca

\* the rows of the history tables that belong to vehicle id
HistoryOf(d, id) ==
    [marchamos |-> {m \in d.marchamos : m.vehiculo_id = id},
     revisiones_vehiculares |-> {r \in d.revisiones_vehiculares : r.vehiculo_id = id}]

\* C20: every marchamo and revision row belongs to a stored vehicle; a
\* DELETE /vehiculos/:placa of a stored vehicle takes away that vehicle and
\* every history row of it, and nothing else.
C20_ReferentialIntegrity ==
    /\ \A m \in db.marchamos : \E v \in db.vehiculos : v.id = m.vehiculo_id
    /\ \A r \in db.revisiones_vehiculares : \E v \in db.vehiculos : v.id = r.vehiculo_id
    /\ (http.op = "DELETE /vehiculos/:placa"
          /\ \E v \in Before.vehiculos : v.placa = AskedPlaca)
           => LET veh == CHOOSE v \in Before.vehiculos : v.placa = AskedPlaca
              IN /\ http.status = 200
                 /\ http.added = NoDelta
                 /\ http.removed.vehiculos = {veh}
                 /\ http.removed.marchamos = HistoryOf(Before, veh.id).marchamos
                 /\ http.removed.revisiones_vehiculares
                        = HistoryOf(Before, veh.id).revisiones_vehiculares
                 /\ db.vehiculos = Before.vehiculos \ {veh}

\* a vehicle with history was deleted, and the history of others is there
C20_Witness ==
    /\ http.op = "DELETE /vehiculos/:placa"
    /\ http.status = 200
    /\ Cardinality(http.removed.marchamos) > 1
    /\ http.removed.revisiones_vehiculares # {}
    /\ db.marchamos # {}


\* the history part of a POST /vehiculos body that the handler writes: the
\* object is there and its anio_validez is a non-zero number
WritesHistory(part) == part # {} /\ NonZero(The(part).anio_validez)

\* C21: POST /vehiculos is atomic.  Answered 201, the store has gained the
\* vehicle and exactly the marchamo and revision rows the body supplied with
\* a non-zero anio_validez, all under the new vehicle's id; answered 500 (or
\* anything else), it has gained nothing and lost nothing.
C21_PostAtomic ==
    http.op = "POST /vehiculos" =>
        /\ http.removed = NoDelta
        /\ http.status = 201 =>
              /\ \E v \in http.added.vehiculos :
                    /\ http.added.vehiculos = {v}
                    /\ v.placa = AskedPlaca
                    /\ \A m \in http.added.marchamos : m.vehiculo_id = v.id
                    /\ \A r \in http.added.revisiones_vehiculares :
                          r.vehiculo_id = v.id
              /\ Cardinality(http.added.marchamos)
                     = IF WritesHistory(http.body.marchamo) THEN 1 ELSE 0
              /\ Cardinality(http.added.revisiones_vehiculares)
                     = IF WritesHistory(http.body.revision) THEN 1 ELSE 0
        /\ http.status # 201 => StoreUntouched

\* a POST with a marchamo to write was answered 500 with nothing written,
\* the plate being free and every required field present
C21_Witness ==
    /\ http.op = "POST /vehiculos"
    /\ http.status = 500
    /\ WritesHistory(http.body.marchamo)
    /\ RequiredPresent(http.body)
    /\ ~PlateTaken
    /\ StoreUntouched


\* the fields of a vehicle that a PUT body leaves out
KeepsAbsent(body, v, w) ==
    /\ body.marca = {} => w.marca = v.marca
    /\ body.modelo = {} => w.modelo = v.modelo
    /\ body.anio = {} => w.anio = v.anio
    /\ body.tipo = {} => w.tipo = v.tipo
    /\ body.numero_chasis = {} => w.numero_chasis = v.numero_chasis

\* C22: PUT /vehiculos/:placa never changes a vehicle's plate, id or
\* creation time: every vehicle stored before is stored after under the same
\* id, plate and creation time, and no vehicle appears.  In src/server.ts it
\* changes no marchamo or revision row and no vehicle but the one named.
\* Fields the body leaves out keep their stored value.
C22_PutFrame ==
    http.op = "PUT /vehiculos/:placa" =>
        /\ \A v \in Before.vehiculos : \E w \in db.vehiculos :
              /\ w.id = v.id /\ w.placa = v.placa /\ w.created_at = v.created_at
              /\ KeepsAbsent(http.body, v, w)
        /\ \A w \in db.vehiculos : \E v \in Before.vehiculos : v.id = w.id
        /\ variant = "server" =>
              /\ http.added.marchamos = {} /\ http.removed.marchamos = {}
              /\ http.added.revisiones_vehiculares = {}
              /\ http.removed.revisiones_vehiculares = {}
              /\ \A v \in http.removed.vehiculos : v.placa = AskedPlaca

\* a PUT giving only marca was answered 200 and rewrote the stored row of a
\* vehicle, other vehicles being stored
C22_Witness ==
    /\ http.op = "PUT /vehiculos/:placa"
    /\ variant = "server"
    /\ http.status = 200
    /\ http.body.marca # {} /\ http.body.modelo = {}
    /\ http.removed.vehiculos # {}
    /\ \E v \in db.vehiculos : v.placa # AskedPlaca


\* a body field that is given and is empty once trimmed (0 for anio)
GivenEmpty(body) ==
    \/ body.marca # {} /\ Trim(The(body.marca)) = <<>>
    \/ body.modelo # {} /\ Trim(The(body.modelo)) = <<>>
    \/ body.numero_chasis # {} /\ Trim(The(body.numero_chasis)) = <<>>
    \/ body.anio = {0}

\* C23: on src/server.ts every stored vehicle has a non-empty placa, marca,
\* modelo and numero_chasis and a non-zero anio; a POST /vehiculos whose body
\* lacks one of them, and a PUT for a stored vehicle whose body gives one of
\* them empty, is answered 400 and leaves the store as it was.
C23_RequiredNeverEmpty ==
    variant = "server" =>
        /\ \A v \in db.vehiculos :
              /\ v.placa # <<>> /\ v.marca # <<>> /\ v.modelo # <<>>
              /\ v.numero_chasis # <<>> /\ v.anio # 0
        /\ (http.op = "POST /vehiculos"
              /\ (AskedPlaca = <<>> \/ ~RequiredPresent(http.body)))
              => http.status = 400 /\ StoreUntouched
        /\ (http.op = "PUT /vehiculos/:placa" /\ PlateTaken
              /\ GivenEmpty(http.body))
              => http.status = 400 /\ StoreUntouched

\* a PUT with a blank marca for a stored vehicle was answered 400
C23_Witness ==
    /\ variant = "server"
    /\ http.op = "PUT /vehiculos/:placa"
    /\ PlateTaken
    /\ GivenEmpty(http.body)
    /\ http.status = 400


\* C24 as stated: in src/unnamed/part_000 a PUT /vehiculos/:placa for a
\* stored vehicle whose body carries a marchamo object stores a new marchamo
\* row for that vehicle, and one whose body carries an rtv object stores a
\* new revision row for it.
C24_PutStoresHistory ==
    (variant = "part000" /\ http.op = "PUT /vehiculos/:placa" /\ PlateTaken) =>
        /\ http.body.marchamo # {} =>
              \E m \in http.added.marchamos :
                 \E v \in db.vehiculos : v.placa = AskedPlaca /\ m.vehiculo_id = v.id
        /\ http.body.rtv # {} =>
              \E r \in http.added.revisiones_vehiculares :
                 \E v \in db.vehiculos : v.placa = AskedPlaca /\ r.vehiculo_id = v.id


\* how many items of the answer of GET /vehiculos are about vehicle v
ItemsAbout(v) ==
    LET rows == {r \in DOMAIN http.items : r.id = v.id}
        RECURSIVE Sum(_)
        Sum(S) == IF S = {} THEN 0
                  ELSE LET r == CHOOSE x \in S : TRUE
                       IN http.items[r] + Sum(S \ {r})
    IN Sum(rows)

\* C25 as stated: GET /vehiculos returns exactly one item per stored
\* vehicle, with the year and status of a marchamo of the highest year of
\* that vehicle (nulls when it has none), and total is the number of stored
\* vehicles.
C25_OneItemPerVehicle ==
    http.op = "GET /vehiculos" =>
        /\ http.total = Cardinality(db.vehiculos)
        /\ \A v \in db.vehiculos : ItemsAbout(v) = 1
        /\ \A r \in DOMAIN http.items :
              \E v \in db.vehiculos :
                 /\ r.id = v.id /\ r.placa = v.placa
                 /\ IF RowsOf(db.marchamos, v.id) = {}
                    THEN r.marchamo_anio = {} /\ r.marchamo_estado = {}
                    ELSE \E m \in RowsOf(db.marchamos, v.id) :
                            /\ r.marchamo_anio = {m.anio_validez}
                            /\ r.marchamo_estado = m.estado
                            /\ m.anio_validez = MaxAnio(RowsOf(db.marchamos, v.id))


\* row, the answer's ultimo_marchamo or ultima_revision, is null when rows
\* is empty and else one of rows with no row of a later year
IsLatestOf(row, rows) ==
    IF rows = {} THEN row = {}
    ELSE \E m \in rows : row = {m} /\ \A r \in rows : r.anio_validez <= m.anio_validez

\* C26: GET /consulta/:placa is answered 400 for an empty plate and 404 for
\* a plate with no vehicle; for a stored vehicle it is answered 200 with
\* ultimo_marchamo a marchamo of that vehicle of the highest anio_validez
\* among its marchamos (null when it has none), and ultima_revision likewise
\* among its revisions.  It writes nothing.
C26_ConsultaLatest ==
    http.op = "GET /consulta/:placa" =>
        /\ StoreUntouched
        /\ IF AskedPlaca = <<>> THEN http.status = 400
           ELSE IF ~PlateTaken THEN http.status = 404
           ELSE \E v \in db.vehiculos :
                   /\ v.placa = AskedPlaca
                   /\ http.status = 200
                   /\ http.placa = v.placa
                   /\ IsLatestOf(http.ultimo_marchamo, RowsOf(db.marchamos, v.id))
                   /\ IsLatestOf(http.ultima_revision,
                                 RowsOf(db.revisiones_vehiculares, v.id))

\* a lookup of a vehicle with marchamos of two different years was answered
C26_Witness ==
    /\ http.op = "GET /consulta/:placa"
    /\ http.status = 200
    /\ http.ultimo_marchamo # {}
    /\ \E m \in db.marchamos :
          /\ m.vehiculo_id = The(http.ultimo_marchamo).vehiculo_id
          /\ m.anio_validez < The(http.ultimo_marchamo).anio_validez


\* the text makeQrToken signed when it issued the token the client holds
IssuedPayload ==
    IF variant = "srcServer" THEN held.placa ELSE normalizePlaca(held.placa)

\* the verified string is one a caller can write down with no token and no
\* secret at hand
ArgIsRaw == result.arg \in SeqsUpTo(RawChars, MaxRawLen)

\* C27: a caller that has the token the service issued to it, and not the
\* secret, makes verifyQrToken succeed only with a token whose payload
\* decodes to the text signed at the issue, under the secret still in use,
\* and the plate returned is the issued plate (normalized, except in
\* src/src/server.ts); a string written with neither token nor secret is
\* never accepted.
C27_Unforgeable ==
    (Verified /\ result.kind = "ok") =>
        /\ held # NoToken =>
              /\ held.secret = QR_SECRET
              /\ ArgDecoded = IssuedPayload
              /\ result.val = IF variant = "srcServer" THEN held.placa
                              ELSE normalizePlaca(held.placa)
        /\ ~(held = NoToken /\ ArgIsRaw)

\* a token that is not the issued one, made from it by changing a character,
\* was accepted
C27_Witness ==
    /\ Verified /\ result.kind = "ok"
    /\ held # NoToken
    /\ result.arg # held.token

================================================================
